---------------------------- MODULE Spec2Model ----------------------------
(***************************************************************************)
(* Model of azure-functions/function_app.py: the solar ingestion run, the  *)
(* insight run (baseline aggregate, summaries, 7-day forecast refresh) and *)
(* the HTTP read handlers, over the three warehouse tables RAW.SOLAR_OBS,  *)
(* MART.SUMMARIES and MART.FORECAST_7D.                                    *)
(*                                                                         *)
(* Calendar days of the pipeline are integers (day numbers); the host's    *)
(* date.today() and the warehouse's CURRENT_DATE() are one clock, today.   *)
(* Floating-point metrics are integers, their SQL AVG an exact fraction    *)
(* <<numerator, denominator>> in lowest terms. Every warehouse statement   *)
(* is applied on its own (the connector's autocommit), and every connect   *)
(* or statement may fail.                                                  *)
(***************************************************************************)
EXTENDS Integers, Sequences, FiniteSets, Bags, TLC

VARIABLES
    today,      \* CURRENT_DATE() / date.today(), a day number
    raw,        \* RAW.SOLAR_OBS, a bag of observation rows
    summaries,  \* MART.SUMMARIES, a bag of summary rows
    forecast,   \* MART.FORECAST_7D, a bag of forecast rows
    pc,         \* position of each insight run
    pairs,      \* generate_insights: the (zip, text) pairs of each run
    idx,        \* _upsert_summaries: index of the next DELETE of each run
    sess,       \* warehouse sessions each insight run holds open
    failedAt,   \* where a run that ended with an exception raised it
    data,       \* generate_insights: the aggregate rows each run read
    narr,       \* outcome of the narrative call for each aggregate row
    overlapped, \* whether the run's refresh interleaved with another's
    raced,      \* two forecast refreshes have interleaved
    snap,       \* the future forecast rows left by the last clean refresh
    rerun,      \* the last clean refresh repeated one of the same day
    ing,        \* fetch_solar_data: outcomes and rows of the last run
    events,     \* timer triggers and midnights so far
    request,    \* the parameters of the last HTTP request
    resp,       \* the response to it
    sql,        \* the query the handler issued for it, if any
    leaked,     \* sessions HTTP handlers opened and left open on exit
    calc        \* one summary computation: its arguments and results

\* the state of the timer-triggered pipeline
pipeVars == <<today, raw, summaries, forecast, pc, pairs, idx, sess, failedAt,
              data, narr, overlapped, raced, snap, rerun, ing, events>>

\* the state the HTTP handlers add
apiVars == <<request, resp, sql, leaked>>

vars == <<pipeVars, apiVars, calc>>

---------------------------------------------------------------------------
(* Bounds of the model *)

\* timer triggers (ingestion runs, insight runs) and midnights in a behaviour
MaxEvents == 4

\* overlapping triggers of the insight timer
Runs == {1, 2}

\* the day number of the first modelled day
Day0 == 7

\* sessions left open that are counted
MaxLeaks == 1

---------------------------------------------------------------------------
(* Settings and program constants *)

ZIP_LIST == <<"93727", "93637">>

\* the collation order of the ZIP strings (ORDER BY ZIP)
ZipOrd(z) ==
    CASE z = "93637" -> 1
      [] z = "93727" -> 2
      [] OTHER -> 0

USE_AOAI == TRUE

\* GENERATOR(ROWCOUNT => 7)
FcstRows == 7
\* DATEADD(day, -6, CURRENT_DATE())
FcstLookback == 6
\* DATEADD('day', -30, CURRENT_DATE())
BaselineDays == 30
\* trend threshold of heuristic_summary, percent
TrendPct == 10
\* TEMP_C of the fallback record
FallbackTemp == 20

\* default of the days parameter of ghi_trend and forecast_api
DefaultDays == 7
\* ghi_trend: max(3, min(days, 60)), and the longest date range
TrendMinDays == 3
TrendMaxDays == 60
\* forecast_api: max(1, min(days, 30))
ForecastMinDays == 1
ForecastMaxDays == 30

\* the calendar date of day number 0 of the pipeline
Epoch == <<2024, 1, 1>>

NULL == "NULL"

---------------------------------------------------------------------------
(* Arithmetic helpers: exact fractions and bags of rows *)

Abs(n) == IF n < 0 THEN -n ELSE n

RECURSIVE Gcd(_, _)
Gcd(a, b) == IF b = 0 THEN a ELSE Gcd(b, a % b)

\* the fraction n/d (d # 0) in lowest terms with a positive denominator
Frac(n, d) ==
    LET g == Gcd(Abs(n), Abs(d))
        s == IF d < 0 THEN -1 ELSE 1
    IN  <<(s * n) \div g, (s * d) \div g>>

RECURSIVE SumCol(_, _, _)
SumCol(B, S, col) ==
    IF S = {} THEN 0
    ELSE LET x == CHOOSE y \in S : TRUE
         IN  B[x] * x[col] + SumCol(B, S \ {x}, col)

RECURSIVE BagSum(_, _)
BagSum(B, S) ==
    IF S = {} THEN 0
    ELSE LET x == CHOOSE y \in S : TRUE
         IN  B[x] + BagSum(B, S \ {x})

\* the bag of the images under F of the rows of bag B (a SELECT list)
MapBag(B, F(_)) ==
    [y \in {F(x) : x \in DOMAIN B} |->
        BagSum(B, {x \in DOMAIN B : F(x) = y})]

\* the rows of bag B that satisfy P
Where(B, P(_)) == [x \in {y \in DOMAIN B : P(y)} |-> B[x]]

\* SQL AVG(col) over the rows of bag B; NULL over no rows
Avg(B, col) ==
    IF DOMAIN B = {} THEN NULL
    ELSE Frac(SumCol(B, DOMAIN B, col), BagCardinality(B))

ZipsOf(B) == {x.ZIP : x \in DOMAIN B}

\* the elements of a finite set of strings as a sequence, ORDER BY
RECURSIVE Sorted(_)
Sorted(S) ==
    IF S = {} THEN <<>>
    ELSE LET m == CHOOSE x \in S : \A y \in S : ZipOrd(x) <= ZipOrd(y)
         IN  <<m>> \o Sorted(S \ {m})

---------------------------------------------------------------------------
(* Ingestion: fetch_daily_record, insert_rows, fetch_solar_data *)

\* what the weather API's hourly series average to (mean_last24)
Readings ==
    { [GHI |-> 6, DNI |-> 4, DHI |-> 2, CLOUD_COVER |-> 1, TEMP_C |-> 25] }

\* how the two HTTP calls of one record can end
FetchOutcomes ==
    [geo : {"ok"}, wx : {"ok"}, m : Readings]
      \cup [geo : {"http_error", "no_places"}, wx : {"ok"}, m : Readings]
      \cup [geo : {"ok"}, wx : {"http_error"}, m : Readings]


\* _zip_to_latlon: raises on an HTTP error and on an empty places list
ZipToLatLon(zip_code, o) ==
    IF o.geo = "ok" THEN [raised |-> FALSE, latlon |-> zip_code]
    ELSE [raised |-> TRUE, latlon |-> NULL]

\* _open_meteo_daily_means: raises on an HTTP error
OpenMeteoDailyMeans(latlon, o) ==
    IF o.wx = "ok" THEN [raised |-> FALSE, m |-> o.m]
    ELSE [raised |-> TRUE, m |-> NULL]

FallbackRecord(zip_code, day) ==
    [OBS_DATE |-> day, ZIP |-> zip_code, GHI |-> 0, DNI |-> 0, DHI |-> 0,
     CLOUD_COVER |-> 0, TEMP_C |-> FallbackTemp, SOURCE |-> "FALLBACK"]

\* the try block of fetch_daily_record
TryFetchDailyRecord(zip_code, o, day) ==
    LET g == ZipToLatLon(zip_code, o)
        w == IF g.raised THEN [raised |-> TRUE, m |-> NULL]
             ELSE OpenMeteoDailyMeans(g.latlon, o)
    IN  IF w.raised THEN [raised |-> TRUE, rec |-> NULL]
        ELSE [raised |-> FALSE,
              rec |-> [OBS_DATE |-> day, ZIP |-> zip_code, GHI |-> w.m.GHI,
                       DNI |-> w.m.DNI, DHI |-> w.m.DHI,
                       CLOUD_COVER |-> w.m.CLOUD_COVER,
                       TEMP_C |-> w.m.TEMP_C, SOURCE |-> "OPEN_METEO"]]

\* mutant: the geocoding call stands outside the try block
FetchDailyRecord_GeoOutsideTry(zip_code, o, day) ==
    LET t == TryFetchDailyRecord(zip_code, o, day)
    IN  IF ZipToLatLon(zip_code, o).raised THEN t
        ELSE IF t.raised
        THEN [raised |-> FALSE, rec |-> FallbackRecord(zip_code, day)]
        ELSE t

\* fetch_daily_record: except Exception -> the fallback record
FetchDailyRecord(zip_code, o, day) ==
    LET t == TryFetchDailyRecord(zip_code, o, day)
    IN  IF t.raised
        THEN [raised |-> FALSE, rec |-> FallbackRecord(zip_code, day)]
        ELSE t

\* rows = [fetch_daily_record(z) for z in ZIP_LIST]: the comprehension stops
\* at the first call that raises
RECURSIVE BuildRows(_, _, _)
BuildRows(outs, day, i) ==
    IF i > Len(ZIP_LIST) THEN [raised |-> FALSE, rows |-> <<>>]
    ELSE LET r == FetchDailyRecord(ZIP_LIST[i], outs[i], day)
         IN  IF r.raised THEN [raised |-> TRUE, rows |-> <<>>]
             ELSE LET rest == BuildRows(outs, day, i + 1)
                  IN  [raised |-> rest.raised,
                       rows |-> IF rest.raised THEN <<>>
                                ELSE <<r.rec>> \o rest.rows]

RECURSIVE SeqToBag(_)
SeqToBag(s) ==
    IF s = <<>> THEN EmptyBag
    ELSE SetToBag({Head(s)}) (+) SeqToBag(Tail(s))

\* insert_rows: nothing on an empty list; else connect, executemany, commit
InsertRows(tbl, rows, db) ==
    IF rows = <<>> \/ db # "ok" THEN tbl ELSE tbl (+) SeqToBag(rows)

---------------------------------------------------------------------------
(* Forecast writer: upsert_forecast_7d *)

\* mutant: the DELETE keeps tomorrow's rows (> for >=)
ForecastDelete_KeepsTomorrow(fc, d) ==
    Where(fc, LAMBDA x : ~(x.FCST_DATE > d + 1))

\* DELETE FROM FORECAST_7D WHERE FCST_DATE >= DATEADD(day, 1, CURRENT_DATE())
ForecastDelete(fc, d) == Where(fc, LAMBDA x : ~(x.FCST_DATE >= d + 1))

\* mutant: the window reaches back 7 days (-7 for -6)
Last7Rows_Wide(tbl, d) ==
    Where(tbl, LAMBDA x : x.OBS_DATE >= d - FcstLookback - 1)

\* the rows the CTE last7 aggregates: OBS_DATE >= DATEADD(day, -6, today)
Last7Rows(tbl, d) == Where(tbl, LAMBDA x : x.OBS_DATE >= d - FcstLookback)

\* mutant: the generator yields one row more
ForecastInsert_OneMore(fc, tbl, d) ==
    LET w == Last7Rows(tbl, d)
        new == { [ZIP |-> z, FCST_DATE |-> d + k,
                  GHI_PREDICTED |->
                      Avg(Where(w, LAMBDA x : x.ZIP = z), "GHI"),
                  METHOD |-> "7d_ma"] :
                 z \in ZipsOf(w), k \in 1..(FcstRows + 1) }
    IN  fc (+) SetToBag(new)

\* INSERT ... SELECT l.ZIP, d.FCST_DATE, l.GHI_7D_AVG, '7d_ma'
\* FROM last7 l CROSS JOIN dates d
ForecastInsert(fc, tbl, d) ==
    LET w == Last7Rows(tbl, d)
        new == { [ZIP |-> z, FCST_DATE |-> d + k,
                  GHI_PREDICTED |->
                      Avg(Where(w, LAMBDA x : x.ZIP = z), "GHI"),
                  METHOD |-> "7d_ma"] : z \in ZipsOf(w), k \in 1..FcstRows }
    IN  fc (+) SetToBag(new)

---------------------------------------------------------------------------
(* Summaries: _pct_change, heuristic_summary, aoai_summary_or_heuristic,   *)
(* _fetch_today_vs_baseline, _upsert_summaries                             *)

\* (today_val - base_val) / base_val * 100.0 as Python evaluates it over
\* None and numbers: TypeError on None, ZeroDivisionError on a zero divisor
Ratio100(today_val, base_val) ==
    IF today_val = NULL \/ base_val = NULL
    THEN [error |-> "TypeError", val |-> NULL]
    ELSE IF base_val[1] = 0
    THEN [error |-> "ZeroDivisionError", val |-> NULL]
    ELSE [error |-> "none",
          val |-> Frac((today_val[1] * base_val[2]
                          - base_val[1] * today_val[2]) * 100,
                       today_val[2] * base_val[1])]

\* mutant: the guard tests only the baseline
PctChangeCall_NoTodayCheck(today_val, base_val) ==
    IF base_val = NULL \/ (base_val # NULL /\ base_val[1] = 0)
    THEN [raised |-> FALSE, val |-> NULL]
    ELSE LET r == Ratio100(today_val, base_val)
         IN  IF r.error = "ZeroDivisionError"
             THEN [raised |-> FALSE, val |-> NULL]
             ELSE [raised |-> r.error # "none", val |-> r.val]

\* _pct_change: the guard of line 162, then the division inside
\* try / except ZeroDivisionError; any other exception leaves the function
PctChangeCall(today_val, base_val) ==
    IF today_val = NULL \/ base_val = NULL
       \/ (base_val # NULL /\ base_val[1] = 0)
    THEN [raised |-> FALSE, val |-> NULL]
    ELSE LET r == Ratio100(today_val, base_val)
         IN  IF r.error = "ZeroDivisionError"
             THEN [raised |-> FALSE, val |-> NULL]
             ELSE [raised |-> r.error # "none", val |-> r.val]

\* the value _pct_change returns, over exact fractions
PctChange(today_val, base_val) == PctChangeCall(today_val, base_val).val

\* mutant: 'above' from 10 percent on
HeuristicSummary_AboveAt10(zip_code, ghi_mean, dni_mean, cloud_mean, pct_vs_base) ==
    IF ghi_mean = NULL THEN "no_data"
    ELSE IF pct_vs_base = NULL THEN "first_day"
    ELSE IF pct_vs_base[1] < -TrendPct * pct_vs_base[2] THEN "below"
    ELSE IF pct_vs_base[1] >= TrendPct * pct_vs_base[2] THEN "above"
    ELSE "near"

\* heuristic_summary: the kind of sentence it returns
HeuristicSummary(zip_code, ghi_mean, dni_mean, cloud_mean, pct_vs_base) ==
    IF ghi_mean = NULL THEN "no_data"
    ELSE IF pct_vs_base = NULL THEN "first_day"
    ELSE IF pct_vs_base[1] < -TrendPct * pct_vs_base[2] THEN "below"
    ELSE IF pct_vs_base[1] > TrendPct * pct_vs_base[2] THEN "above"
    ELSE "near"

\* how the narrative service's call can end
NarrOutcomes == {"ok", "timeout", "bad_response"}

\* the try block of aoai_summary_or_heuristic: formatting the prompt raises
\* on pct_vs_base None, the call raises on a timeout or a bad response
TryAoai(zip_code, ghi_mean, dni_mean, cloud_mean, pct_vs_base, call) ==
    IF pct_vs_base = NULL \/ call # "ok" THEN [raised |-> TRUE, text |-> NULL]
    ELSE [raised |-> FALSE, text |-> "aoai"]

\* mutant: only the HTTP call is guarded, the prompt is formatted before try
AoaiSummaryOrHeuristic_PromptOutsideTry(zip_code, ghi_mean, dni_mean, cloud_mean, pct_vs_base, call) ==
    LET h == HeuristicSummary(zip_code, ghi_mean, dni_mean, cloud_mean,
                              pct_vs_base)
    IN  IF ~USE_AOAI THEN [raised |-> FALSE, text |-> h]
        ELSE IF pct_vs_base = NULL THEN [raised |-> TRUE, text |-> NULL]
        ELSE LET t == TryAoai(zip_code, ghi_mean, dni_mean, cloud_mean,
                              pct_vs_base, call)
             IN  IF t.raised THEN [raised |-> FALSE, text |-> h] ELSE t

\* aoai_summary_or_heuristic
AoaiSummaryOrHeuristic(zip_code, ghi_mean, dni_mean, cloud_mean, pct_vs_base, call) ==
    LET h == HeuristicSummary(zip_code, ghi_mean, dni_mean, cloud_mean,
                              pct_vs_base)
    IN  IF ~USE_AOAI THEN [raised |-> FALSE, text |-> h]
        ELSE LET t == TryAoai(zip_code, ghi_mean, dni_mean, cloud_mean,
                              pct_vs_base, call)
             IN  IF t.raised THEN [raised |-> FALSE, text |-> h] ELSE t

\* _fetch_today_vs_baseline: today's and the prior 30 days' means per ZIP,
\* FULL OUTER JOIN, ORDER BY ZIP
FetchTodayVsBaseline(tbl, d) ==
    LET t == Where(tbl, LAMBDA x : x.OBS_DATE = d)
        b == Where(tbl, LAMBDA x : /\ x.OBS_DATE >= d - BaselineDays
                                   /\ x.OBS_DATE <= d - 1)
        zs == Sorted(ZipsOf(t) \cup ZipsOf(b))
    IN  [i \in 1..Len(zs) |->
            LET tz == Where(t, LAMBDA x : x.ZIP = zs[i])
                bz == Where(b, LAMBDA x : x.ZIP = zs[i])
            IN  [ZIP |-> zs[i], GHI_TODAY |-> Avg(tz, "GHI"),
                 DNI_TODAY |-> Avg(tz, "DNI"),
                 CLOUD_TODAY |-> Avg(tz, "CLOUD_COVER"),
                 GHI_30D |-> Avg(bz, "GHI")]]

\* generate_insights, lines 280-285: one (zip, text) pair per aggregate row;
\* a helper that raises ends the loop and the run
RECURSIVE BuildPairs(_, _, _)
BuildPairs(d, calls, i) ==
    IF i > Len(d) THEN [raised |-> FALSE, pairs |-> <<>>]
    ELSE LET pct == PctChange(d[i].GHI_TODAY, d[i].GHI_30D)
             a == AoaiSummaryOrHeuristic(d[i].ZIP, d[i].GHI_TODAY,
                                         d[i].DNI_TODAY, d[i].CLOUD_TODAY,
                                         pct, calls[i])
         IN  IF a.raised THEN [raised |-> TRUE, pairs |-> <<>>]
             ELSE LET rest == BuildPairs(d, calls, i + 1)
                  IN  [raised |-> rest.raised,
                       pairs |-> IF rest.raised THEN <<>>
                                 ELSE <<[zip |-> d[i].ZIP, text |-> a.text]>>
                                          \o rest.pairs]

\* mutant: the DELETE matches on the ZIP of yesterday's rows
SummaryDelete_Yesterday(tbl, d, zip_code) ==
    Where(tbl, LAMBDA x : ~(x.SUMMARY_DATE = d - 1 /\ x.ZIP = zip_code))

\* DELETE FROM SUMMARIES WHERE SUMMARY_DATE = CURRENT_DATE() AND ZIP = %s
SummaryDelete(tbl, d, zip_code) ==
    Where(tbl, LAMBDA x : ~(x.SUMMARY_DATE = d /\ x.ZIP = zip_code))

\* INSERT INTO SUMMARIES VALUES (CURRENT_DATE(), %s, %s), executemany
SummaryInsert(tbl, d, rows) ==
    tbl (+) SeqToBag([i \in 1..Len(rows) |->
                        [SUMMARY_DATE |-> d, ZIP |-> rows[i].zip,
                         SUMMARY_TEXT |-> rows[i].text]])

---------------------------------------------------------------------------
(* Strings and dates of the HTTP handlers. A query parameter is a sequence  *)
(* of pieces: single characters for days, start and end, and for zip whole *)
(* words and blanks.                                                       *)

Digits == <<"0", "1", "2", "3", "4", "5", "6", "7", "8", "9">>

IsDigit(c) == \E i \in 1..Len(Digits) : Digits[i] = c

DigitVal(c) == (CHOOSE i \in 1..Len(Digits) : Digits[i] = c) - 1

\* req.params.get(name) of a parameter the request does not carry (None)
Absent == <<NULL>>

\* (param or ""): an absent parameter reads as the empty string
OrEmpty(p) == IF p = Absent THEN <<>> ELSE p

RECURSIVE LStrip(_)
LStrip(s) == IF s # <<>> /\ Head(s) = " " THEN LStrip(Tail(s)) ELSE s

RECURSIVE RStrip(_)
RStrip(s) ==
    IF s # <<>> /\ s[Len(s)] = " " THEN RStrip(SubSeq(s, 1, Len(s) - 1))
    ELSE s

\* str.strip()
Strip(s) == RStrip(LStrip(s))

RECURSIVE DigitsValue(_)
DigitsValue(s) ==
    IF s = <<>> THEN 0
    ELSE 10 * DigitsValue(SubSeq(s, 1, Len(s) - 1)) + DigitVal(s[Len(s)])

AllDigits(s) == s # <<>> /\ \A i \in 1..Len(s) : IsDigit(s[i])

\* int(s): blanks around, an optional sign, then digits; else ValueError
ParseInt(s) ==
    LET t == Strip(s)
        signed == t # <<>> /\ Head(t) \in {"+", "-"}
        body == IF signed THEN Tail(t) ELSE t
    IN  IF AllDigits(body)
        THEN [raised |-> FALSE,
              val |-> IF signed /\ Head(t) = "-" THEN -DigitsValue(body)
                      ELSE DigitsValue(body)]
        ELSE [raised |-> TRUE, val |-> 0]

Min(a, b) == IF a < b THEN a ELSE b

Max(a, b) == IF a > b THEN a ELSE b

\* days = int(days_param) if days_param is not None else 7, ValueError -> 7
DaysOrDefault(days_param) ==
    IF days_param = Absent THEN DefaultDays
    ELSE LET p == ParseInt(days_param)
         IN  IF p.raised THEN DefaultDays ELSE p.val

\* mutant: the clamp of ghi_trend without its lower bound
TrendDays_NoFloor(days_param) == Min(DaysOrDefault(days_param), TrendMaxDays)

\* ghi_trend: days = max(3, min(days, 60))
TrendDays(days_param) ==
    Max(TrendMinDays, Min(DaysOrDefault(days_param), TrendMaxDays))

\* forecast_api: days = max(1, min(days, 30))
ForecastDays(days_param) ==
    Max(ForecastMinDays, Min(DaysOrDefault(days_param), ForecastMaxDays))

\* re.compile(r"^\d{4}-\d{2}-\d{2}$").match
IsoMatch(s) ==
    /\ Len(s) = 10
    /\ s[5] = "-" /\ s[8] = "-"
    /\ \A i \in {1, 2, 3, 4, 6, 7, 9, 10} : IsDigit(s[i])

IsLeap(y) == y % 4 = 0 /\ (y % 100 # 0 \/ y % 400 = 0)

DaysInMonth(y, m) ==
    IF m = 2 THEN (IF IsLeap(y) THEN 29 ELSE 28)
    ELSE IF m \in {4, 6, 9, 11} THEN 30 ELSE 31

\* datetime.date's proleptic Gregorian ordinal
DaysBeforeYear(y) ==
    (y - 1) * 365 + (y - 1) \div 4 - (y - 1) \div 100 + (y - 1) \div 400

RECURSIVE DaysBeforeMonth(_, _)
DaysBeforeMonth(y, m) ==
    IF m = 1 THEN 0 ELSE DaysBeforeMonth(y, m - 1) + DaysInMonth(y, m - 1)

ToOrdinal(dt) == DaysBeforeYear(dt[1]) + DaysBeforeMonth(dt[1], dt[2]) + dt[3]

RECURSIVE YearOf(_, _)
YearOf(n, y) == IF n > DaysBeforeYear(y + 1) THEN YearOf(n, y + 1) ELSE y

RECURSIVE MonthOf(_, _, _)
MonthOf(n, y, m) ==
    IF n > DaysBeforeMonth(y, m) + DaysInMonth(y, m) THEN MonthOf(n, y, m + 1)
    ELSE m

\* date.fromordinal
FromOrdinal(n) ==
    LET y == YearOf(n, n \div 366 + 1)
        r == n - DaysBeforeYear(y)
        m == MonthOf(r, y, 1)
    IN  <<y, m, r - DaysBeforeMonth(y, m)>>

\* datetime.strptime(s, "%Y-%m-%d").date() of a string that IsoMatch
\* accepts: ValueError unless year, month and day name a calendar date
Strptime(s) ==
    LET y == DigitsValue(SubSeq(s, 1, 4))
        m == DigitsValue(SubSeq(s, 6, 7))
        d == DigitsValue(SubSeq(s, 9, 10))
    IN  IF y >= 1 /\ m >= 1 /\ m <= 12 /\ d >= 1 /\ d <= DaysInMonth(y, m)
        THEN [raised |-> FALSE, date |-> <<y, m, d>>]
        ELSE [raised |-> TRUE, date |-> <<>>]

Pad(n, w) ==
    [i \in 1..w |-> Digits[((n \div (10 ^ (w - i))) % 10) + 1]]

\* date.isoformat()
IsoFormat(dt) == Pad(dt[1], 4) \o <<"-">> \o Pad(dt[2], 2) \o <<"-">> \o Pad(dt[3], 2)

\* mutant: the range is cut at its start, the end moved back
ClampRange_KeepsStart(d1, d2) ==
    LET lo == Min(ToOrdinal(d1), ToOrdinal(d2))
        hi == Max(ToOrdinal(d1), ToOrdinal(d2))
    IN  IF hi - lo > TrendMaxDays
        THEN [start |-> FromOrdinal(lo),
              end |-> FromOrdinal(lo + TrendMaxDays)]
        ELSE [start |-> FromOrdinal(lo), end |-> FromOrdinal(hi)]

\* ghi_trend, lines 382-385: swap if reversed, then
\* if (d_end - d_start).days > 60: d_start = d_end - timedelta(days=60)
ClampRange(d1, d2) ==
    LET swap == ToOrdinal(d1) > ToOrdinal(d2)
        d_start == IF swap THEN d2 ELSE d1
        d_end == IF swap THEN d1 ELSE d2
    IN  IF ToOrdinal(d_end) - ToOrdinal(d_start) > TrendMaxDays
        THEN [start |-> FromOrdinal(ToOrdinal(d_end) - TrendMaxDays),
              end |-> d_end]
        ELSE [start |-> d_start, end |-> d_end]

\* the calendar date of a day number of the pipeline
DateOfDay(n) == FromOrdinal(ToOrdinal(Epoch) + n)

DayOfDate(dt) == ToOrdinal(dt) - ToOrdinal(Epoch)

RECURSIVE SortedNums(_)
SortedNums(S) ==
    IF S = {} THEN <<>>
    ELSE LET m == CHOOSE x \in S : \A y \in S : x <= y
         IN  <<m>> \o SortedNums(S \ {m})

\* float(v or 0)
FloatOrZero(v) == IF v = NULL THEN <<0, 1>> ELSE v

---------------------------------------------------------------------------
(* HTTP read handlers. A handler is a function of the request, the tables  *)
(* and the way its warehouse calls end; its outcome is the response, the   *)
(* parameters of the query it issued (NULL when it issued none) and the    *)
(* sessions it opened and closed.                                          *)

Reply(h, st, err, zip, days, start, end, body) ==
    [handler |-> h, status |-> st, error |-> err, zip |-> zip, days |-> days,
     start |-> start, end |-> end, data |-> body]

Request(zip, days, start, end) ==
    [zip |-> zip, days |-> days, start |-> start, end |-> end]

\* a request without parameters
NoRequest == Request(Absent, Absent, Absent, Absent)

\* before the first request
NoResp == Reply("none", 0, NULL, NULL, NULL, NULL, NULL, NULL)

\* the query a handler sends: its table and the values in its WHERE clause
Query(tbl, zip, start, end, since, rows) ==
    [issued |-> TRUE, table |-> tbl, zip |-> zip, start |-> start,
     end |-> end, since |-> since, rows |-> rows]

\* the handler returned before its query
NoQuery ==
    [issued |-> FALSE, table |-> NULL, zip |-> NULL, start |-> NULL,
     end |-> NULL, since |-> NULL, rows |-> NULL]

Outcome(reply, query, opened, closed) ==
    [resp |-> reply, sql |-> query, opened |-> opened, closed |-> closed]

\* except Exception as e: ... status_code=500
Error500(h) == Reply(h, 500, "exception", NULL, NULL, NULL, NULL, NULL)

\* TO_VARCHAR of a DATE column
DateText(n) == IsoFormat(DateOfDay(n))

\* TO_DATE of a YYYY-MM-DD text
ToDate(s) == DayOfDate(Strptime(s).date)

\* the handlers of the shape
\*   try: conn = _snowflake_conn(...); execute; return 200
\*   except Exception: return 500
\*   finally: try: conn.close() except Exception: pass
ReadOutcomes == {"ok", "connect_failed", "query_failed"}

Guarded(h, db, ok, query) ==
    CASE db = "connect_failed" -> Outcome(Error500(h), NoQuery, 0, 0)
      [] db = "query_failed" -> Outcome(Error500(h), query, 1, 1)
      [] OTHER -> Outcome(ok, query, 1, 1)

\* summaries: SELECT ZIP, SUMMARY_TEXT ... WHERE SUMMARY_DATE =
\* CURRENT_DATE() ORDER BY ZIP; rows of one ZIP come in any order, so the
\* list is a bag
SummariesApi(db, tbl, d) ==
    LET rows == Where(tbl, LAMBDA x : x.SUMMARY_DATE = d)
        list == MapBag(rows, LAMBDA x : [ZIP |-> x.ZIP,
                                         SUMMARY_TEXT |-> x.SUMMARY_TEXT])
    IN  Guarded("summaries", db,
                Reply("summaries", 200, NULL, NULL, NULL, NULL, NULL, list),
                Query("SUMMARIES", NULL, NULL, NULL, d, NULL))

\* ghitoday: SELECT ZIP, AVG(GHI) ... WHERE OBS_DATE = CURRENT_DATE()
\* GROUP BY ZIP ORDER BY ZIP
GhiToday(db, tbl, d) ==
    LET rows == Where(tbl, LAMBDA x : x.OBS_DATE = d)
        zs == Sorted(ZipsOf(rows))
        list == [i \in 1..Len(zs) |->
                   [ZIP |-> zs[i],
                    GHI_MEAN |-> FloatOrZero(
                        Avg(Where(rows, LAMBDA x : x.ZIP = zs[i]), "GHI"))]]
    IN  Guarded("ghitoday", db,
                Reply("ghitoday", 200, NULL, NULL, NULL, NULL, NULL, list),
                Query("SOLAR_OBS", NULL, NULL, NULL, d, NULL))

\* raw_zip after "if not raw_zip: raw_zip = allowed[0]"
ZipOrDefault(zip_param, allowed) ==
    IF Strip(OrEmpty(zip_param)) = <<>> THEN <<allowed[1]>>
    ELSE Strip(OrEmpty(zip_param))

\* raw_zip in allowed
ZipAllowed(raw_zip, allowed) ==
    \E i \in 1..Len(allowed) : raw_zip = <<allowed[i]>>

ZipNotAllowed(h, raw_zip) ==
    Reply(h, 400, "zip_not_allowed", raw_zip, NULL, NULL, NULL, NULL)

\* SELECT TO_VARCHAR(OBS_DATE), AVG(GHI) ... GROUP BY OBS_DATE ORDER BY
\* OBS_DATE over the observations the WHERE clause selected
TrendSeries(rows) ==
    LET ds == SortedNums({x.OBS_DATE : x \in DOMAIN rows})
    IN  [i \in 1..Len(ds) |->
           [OBS_DATE |-> DateText(ds[i]),
            GHI_MEAN |-> FloatOrZero(
                Avg(Where(rows, LAMBDA x : x.OBS_DATE = ds[i]), "GHI"))]]

\* ghi_trend with a start and an end that passed the shape check
TrendByRange(zip_code, start, end, db, tbl, d) ==
    IF Strptime(start).raised \/ Strptime(end).raised
    THEN Outcome(Error500("ghitrend"), NoQuery, 0, 0)
    ELSE LET w == ClampRange(Strptime(start).date, Strptime(end).date)
             s == IsoFormat(w.start)
             e == IsoFormat(w.end)
         IN  Guarded("ghitrend", db,
                     Reply("ghitrend", 200, NULL, zip_code, NULL, s, e,
                           TrendSeries(Where(tbl, LAMBDA x :
                               /\ x.ZIP = zip_code
                               /\ x.OBS_DATE >= ToDate(s)
                               /\ x.OBS_DATE <= ToDate(e)))),
                     Query("SOLAR_OBS", zip_code, s, e, NULL, NULL))

\* ghi_trend without both dates: the last days days up to today
TrendByDays(zip_code, days_param, db, tbl, d) ==
    LET days == TrendDays(days_param)
    IN  Guarded("ghitrend", db,
                Reply("ghitrend", 200, NULL, zip_code, days, NULL, NULL,
                      TrendSeries(Where(tbl, LAMBDA x :
                          /\ x.ZIP = zip_code
                          /\ x.OBS_DATE >= d - (days - 1)))),
                Query("SOLAR_OBS", zip_code, NULL, NULL, d - (days - 1),
                      NULL))

\* ghi_trend
GhiTrend(req, db, tbl, d) ==
    LET start == Strip(OrEmpty(req.start))
        end == Strip(OrEmpty(req.end))
        allowed == ZIP_LIST
    IN  IF Strip(OrEmpty(req.zip)) = <<>> /\ allowed = <<>>
        THEN Outcome(Error500("ghitrend"), NoQuery, 0, 0)
        ELSE LET raw_zip == ZipOrDefault(req.zip, allowed)
             IN  IF ~ZipAllowed(raw_zip, allowed)
                 THEN Outcome(ZipNotAllowed("ghitrend", raw_zip), NoQuery,
                              0, 0)
                 ELSE IF start # <<>> /\ end # <<>>
                 THEN IF ~IsoMatch(start) \/ ~IsoMatch(end)
                      THEN Outcome(Reply("ghitrend", 400, "start_end_shape",
                                         NULL, NULL, NULL, NULL, NULL),
                                   NoQuery, 0, 0)
                      ELSE TrendByRange(raw_zip[1], start, end, db, tbl, d)
                 ELSE TrendByDays(raw_zip[1], req.days, db, tbl, d)

\* forecast_api, days = 7: the rows of FORECAST_7D of the ZIP, ORDER BY
\* FCST_DATE; rows of one date come in any order, so the series is a bag
StoredForecast(fc, zip_code) ==
    MapBag(Where(fc, LAMBDA x : x.ZIP = zip_code),
           LAMBDA x : [FCST_DATE |-> DateText(x.FCST_DATE),
                       GHI_PREDICTED |-> FloatOrZero(x.GHI_PREDICTED)])

\* forecast_api, days # 7: the mean of the last 7 days on each of the next
\* days days
FlyForecast(tbl, zip_code, days, d) ==
    LET avg == Avg(Where(Last7Rows(tbl, d), LAMBDA x : x.ZIP = zip_code),
                   "GHI")
    IN  SetToBag({[FCST_DATE |-> DateText(d + k),
                   GHI_PREDICTED |-> FloatOrZero(avg)] : k \in 1..days})

\* forecast_api
ForecastApi(req, db, tbl, fc, d) ==
    LET days == ForecastDays(req.days)
        allowed == ZIP_LIST
    IN  IF Strip(OrEmpty(req.zip)) = <<>> /\ allowed = <<>>
        THEN Outcome(Error500("forecast"), NoQuery, 0, 0)
        ELSE LET raw_zip == ZipOrDefault(req.zip, allowed)
             IN  IF ~ZipAllowed(raw_zip, allowed)
                 THEN Outcome(ZipNotAllowed("forecast", raw_zip), NoQuery,
                              0, 0)
                 ELSE Guarded("forecast", db,
                        Reply("forecast", 200, NULL, raw_zip[1], days, NULL,
                              NULL,
                              IF days = FcstRows
                              THEN StoredForecast(fc, raw_zip[1])
                              ELSE FlyForecast(tbl, raw_zip[1], days, d)),
                        Query(IF days = FcstRows THEN "FORECAST_7D"
                              ELSE "SOLAR_OBS",
                              raw_zip[1], NULL, NULL, NULL, days))

\* status_api: where its warehouse calls can fail
StatusOutcomes ==
    {"ok", "connect_raw", "query_ingestion", "connect_mart",
     "query_summaries", "query_forecast"}

\* status_api, 1) Ingestion: per ZIP the last day and today's row count
StatusIngestion(tbl, d) ==
    LET zs == Sorted(ZipsOf(tbl))
    IN  [i \in 1..Len(zs) |->
           LET rows == Where(tbl, LAMBDA x : x.ZIP = zs[i])
           IN  [ZIP |-> zs[i],
                LAST_OBS |-> DateText(CHOOSE n \in
                    {x.OBS_DATE : x \in DOMAIN rows} :
                    \A x \in DOMAIN rows : x.OBS_DATE <= n),
                TODAY_ROWS |-> BagCardinality(
                    Where(rows, LAMBDA x : x.OBS_DATE = d))]]

\* status_api, 3) Forecast table coverage: per ZIP the rows and their span
StatusForecast(fc) ==
    LET zs == Sorted(ZipsOf(fc))
    IN  [i \in 1..Len(zs) |->
           LET rows == Where(fc, LAMBDA x : x.ZIP = zs[i])
               ds == SortedNums({x.FCST_DATE : x \in DOMAIN rows})
           IN  [ZIP |-> zs[i], DAYS |-> BagCardinality(rows),
                FIRST_DATE |-> DateText(ds[1]),
                LAST_DATE |-> DateText(ds[Len(ds)])]]

\* status_api: the flags per allowed ZIP
StatusPerZip(ingestion, fcst, d) ==
    [i \in 1..Len(ZIP_LIST) |->
       [ZIP |-> ZIP_LIST[i],
        INGEST_TODAY |-> \E j \in 1..Len(ingestion) :
            /\ ingestion[j].ZIP = ZIP_LIST[i]
            /\ ingestion[j].TODAY_ROWS > 0
            /\ ingestion[j].LAST_OBS = DateText(d),
        FORECAST_7D |-> \E j \in 1..Len(fcst) :
            fcst[j].ZIP = ZIP_LIST[i] /\ fcst[j].DAYS >= 7]]

\* status_api: conn_raw and conn_mart are closed by the statements after
\* their queries (lines 458 and 493); the except clause closes nothing
StatusApi(db, tbl, sums, fc, d) ==
    LET ingestion == StatusIngestion(tbl, d)
        fcst == StatusForecast(fc)
        payload == [ingestion |-> ingestion,
                    summaries |-> BagCardinality(
                        Where(sums, LAMBDA x : x.SUMMARY_DATE = d)),
                    forecast |-> fcst,
                    per_zip |-> StatusPerZip(ingestion, fcst, d)]
        q == Query("SOLAR_OBS", NULL, NULL, NULL, d, NULL)
    IN  CASE db = "connect_raw" -> Outcome(Error500("status"), NoQuery, 0, 0)
          [] db = "query_ingestion" -> Outcome(Error500("status"), q, 1, 0)
          [] db = "connect_mart" -> Outcome(Error500("status"), q, 1, 1)
          [] db = "query_summaries" -> Outcome(Error500("status"), q, 2, 1)
          [] db = "query_forecast" -> Outcome(Error500("status"), q, 2, 1)
          [] OTHER ->
               Outcome(Reply("status", 200, NULL, NULL, NULL, NULL, NULL,
                             payload), q, 2, 2)

---------------------------------------------------------------------------
(* Initial state: empty MART tables; RAW holds what ingestion runs of       *)
(* earlier days left: nothing, a week-old run, or that and a 6-day-old run   *)

AllOk == [i \in 1..Len(ZIP_LIST) |->
            [geo |-> "ok", wx |-> "ok", m |-> CHOOSE m \in Readings : TRUE]]

OneDown == [AllOk EXCEPT ![1] = [@ EXCEPT !.geo = "no_places"]]

TwoRuns ==
    <<[day |-> Day0 - FcstLookback - 1, outs |-> AllOk],
      [day |-> Day0 - FcstLookback, outs |-> OneDown]>>

PastRuns == {<<>>, <<TwoRuns[1]>>, TwoRuns}

RECURSIVE Replay(_)
Replay(h) ==
    IF h = <<>> THEN EmptyBag
    ELSE InsertRows(Replay(Tail(h)),
                    BuildRows(Head(h).outs, Head(h).day, 1).rows, "ok")

NoSnap == [valid |-> FALSE, rows |-> EmptyBag]

NoIngest == [day |-> Day0, outs |-> <<>>, rows |-> <<>>, raised |-> FALSE]

\* values of a GHI mean: none, zero, a baseline of 100 and the values 10,
\* 10.01 and 9.99 percent above and below it, and others
GhiValues ==
    <<NULL, <<0, 1>>, <<100, 1>>, <<110, 1>>, <<11001, 100>>, <<10999, 100>>,
      <<90, 1>>, <<8999, 100>>, <<9001, 100>>, <<50, 1>>, <<200, 1>>,
      <<1, 3>>, <<-100, 1>>>>

\* values of a baseline mean: none, zero, and numbers that keep the exact
\* products within the integers of the checker
BaseValues == <<NULL, <<0, 1>>, <<100, 1>>, <<50, 1>>, <<1, 3>>, <<-100, 1>>>>

\* values of a percent change handed to heuristic_summary
PctValues ==
    <<NULL, <<-1001, 100>>, <<-10, 1>>, <<-999, 100>>, <<0, 1>>,
      <<999, 100>>, <<10, 1>>, <<1001, 100>>, <<1000, 1>>>>

\* no summary computation
NoCalc ==
    [stage |-> "none", via |-> "none", today_val |-> NULL, base_val |-> NULL,
     pct_arg |-> NULL, pct |-> NULL, raised |-> FALSE, kind |-> "none"]

\* no insight run under way, no ingestion run and no request yet
Idle ==
    /\ pc = [r \in Runs |-> "idle"]
    /\ pairs = [r \in Runs |-> <<>>]
    /\ idx = [r \in Runs |-> 0]
    /\ sess = [r \in Runs |-> 0]
    /\ failedAt = [r \in Runs |-> "none"]
    /\ data = [r \in Runs |-> <<>>]
    /\ narr = [r \in Runs |-> <<>>]
    /\ overlapped = [r \in Runs |-> FALSE]
    /\ raced = FALSE
    /\ snap = NoSnap
    /\ rerun = FALSE
    /\ ing = NoIngest
    /\ events = 0
    /\ request = NoRequest
    /\ resp = NoResp
    /\ sql = NoQuery
    /\ leaked = 0
    /\ calc = NoCalc

Init ==
    /\ today = Day0
    /\ raw \in {Replay(h) : h \in PastRuns}
    /\ summaries = EmptyBag
    /\ forecast = EmptyBag
    /\ Idle

\* a summary computation about to start, over every pair of a today's
\* mean and a baseline mean, and a percent change to classify directly
InitSummary ==
    /\ today = Day0
    /\ raw = EmptyBag
    /\ summaries = EmptyBag
    /\ forecast = EmptyBag
    /\ pc = [r \in Runs |-> "idle"]
    /\ pairs = [r \in Runs |-> <<>>]
    /\ idx = [r \in Runs |-> 0]
    /\ sess = [r \in Runs |-> 0]
    /\ failedAt = [r \in Runs |-> "none"]
    /\ data = [r \in Runs |-> <<>>]
    /\ narr = [r \in Runs |-> <<>>]
    /\ overlapped = [r \in Runs |-> FALSE]
    /\ raced = FALSE
    /\ snap = NoSnap
    /\ rerun = FALSE
    /\ ing = NoIngest
    /\ events = 0
    /\ request = NoRequest
    /\ resp = NoResp
    /\ sql = NoQuery
    /\ leaked = 0
    /\ \E i \in 1..Len(GhiValues), j \in 1..Len(BaseValues),
          k \in 1..Len(PctValues) :
          calc = [NoCalc EXCEPT !.stage = "args",
                                !.today_val = GhiValues[i],
                                !.base_val = BaseValues[j],
                                !.pct_arg = PctValues[k]]

\* the warehouse the requests are served from: the observations of two
\* ingestion runs and the forecast block of a refresh of today
InitApi ==
    /\ today = Day0
    /\ raw = Replay(TwoRuns)
    /\ summaries = EmptyBag
    /\ forecast = ForecastInsert(EmptyBag, raw, today)
    /\ Idle

---------------------------------------------------------------------------
(* Actions *)

\* midnight
Tick ==
    /\ events < MaxEvents
    /\ UNCHANGED <<apiVars, calc>>
    /\ events' = events + 1
    /\ today' = today + 1
    /\ snap' = NoSnap
    /\ rerun' = FALSE
    /\ UNCHANGED <<raw, summaries, forecast, pc, pairs, idx, sess, failedAt,
                   data, narr, overlapped, raced, ing>>

\* fetch_solar_data: one record per ZIP, then insert_rows; the HTTP calls
\* of the records end as one of the vectors O
Ingest(O) ==
    /\ events < MaxEvents
    /\ UNCHANGED <<apiVars, calc>>
    /\ events' = events + 1
    /\ \E outs \in O,
          db \in {"ok", "connect_failed", "insert_failed"} :
          LET b == BuildRows(outs, today, 1)
          IN  /\ ing' = [day |-> today, outs |-> outs, rows |-> b.rows,
                          raised |-> b.raised]
              /\ raw' = IF b.raised THEN raw ELSE InsertRows(raw, b.rows, db)
    /\ snap' = IF raw' = raw THEN snap ELSE NoSnap
    /\ rerun' = IF raw' = raw THEN rerun ELSE FALSE
    /\ UNCHANGED <<today, summaries, forecast, pc, pairs, idx, sess,
                   failedAt, data, narr, overlapped, raced>>

FetchSolarData == Ingest([1..Len(ZIP_LIST) -> FetchOutcomes])

\* the same, with every call answered or the first ZIP not geocoded
FetchSolarDataCoarse == Ingest({AllOk, OneDown})

Active(r) == pc[r] \notin {"idle", "done", "fc_failed", "failed"}

\* generate_insights, lines 268-285: read the aggregate on a RAW session,
\* close it, build the pairs
ReadBaseline(r) ==
    /\ ~Active(r)
    /\ UNCHANGED <<apiVars, calc>>
    /\ events < MaxEvents
    /\ events' = events + 1
    /\ \E db \in {"ok", "connect_failed", "query_failed"} :
          IF db # "ok"
          THEN /\ pc' = [pc EXCEPT ![r] = "failed"]
               /\ failedAt' = [failedAt EXCEPT ![r] = "read"]
               /\ pairs' = [pairs EXCEPT ![r] = <<>>]
               /\ data' = [data EXCEPT ![r] = <<>>]
               /\ narr' = [narr EXCEPT ![r] = <<>>]
          ELSE LET d == FetchTodayVsBaseline(raw, today)
               IN  \E calls \in [1..Len(d) -> NarrOutcomes] :
                     LET b == BuildPairs(d, calls, 1)
                     IN  /\ data' = [data EXCEPT ![r] = d]
                         /\ narr' = [narr EXCEPT ![r] = calls]
                         /\ pairs' = [pairs EXCEPT ![r] = b.pairs]
                         /\ pc' = [pc EXCEPT ![r] =
                                     IF b.raised THEN "failed" ELSE "upsert"]
                         /\ failedAt' = [failedAt EXCEPT ![r] =
                                     IF b.raised THEN "narrative" ELSE "none"]
    /\ idx' = [idx EXCEPT ![r] = 0]
    /\ overlapped' = [overlapped EXCEPT ![r] = FALSE]
    /\ UNCHANGED <<today, raw, summaries, forecast, sess, raced, snap, rerun,
                   ing>>

\* what a run that leaves _upsert_summaries by an exception does:
\* finally conn.close(), and the exception ends the run
SumFail(r) ==
    /\ sess' = [sess EXCEPT ![r] = 0]
    /\ pc' = [pc EXCEPT ![r] = "failed"]
    /\ failedAt' = [failedAt EXCEPT ![r] = "write"]
    /\ idx' = [idx EXCEPT ![r] = 0]
    /\ pairs' = [pairs EXCEPT ![r] = <<>>]
    /\ data' = [data EXCEPT ![r] = <<>>]
    /\ narr' = [narr EXCEPT ![r] = <<>>]

\* _upsert_summaries: open the MART session
SumConnect(r) ==
    /\ pc[r] = "upsert"
    /\ UNCHANGED <<apiVars, calc>>
    /\ \E db \in {"ok", "connect_failed"} :
          IF db = "ok"
          THEN /\ sess' = [sess EXCEPT ![r] = 1]
               /\ idx' = [idx EXCEPT ![r] = 1]
               /\ pc' = [pc EXCEPT ![r] =
                           IF pairs[r] = <<>> THEN "sum_ins" ELSE "sum_del"]
               /\ UNCHANGED <<failedAt, pairs, data, narr>>
          ELSE SumFail(r)
    /\ UNCHANGED <<today, raw, summaries, forecast, overlapped, raced, snap,
                   rerun, ing, events>>

\* _upsert_summaries: one DELETE of the loop over rows
SumDelete(r) ==
    /\ pc[r] = "sum_del"
    /\ UNCHANGED <<apiVars, calc>>
    /\ \E db \in {"ok", "failed"} :
          IF db = "ok"
          THEN /\ summaries' =
                      SummaryDelete(summaries, today, pairs[r][idx[r]].zip)
               /\ idx' = [idx EXCEPT ![r] = @ + 1]
               /\ pc' = [pc EXCEPT ![r] =
                           IF idx[r] = Len(pairs[r]) THEN "sum_ins"
                           ELSE "sum_del"]
               /\ UNCHANGED <<sess, failedAt, pairs, data, narr>>
          ELSE SumFail(r) /\ UNCHANGED summaries
    /\ UNCHANGED <<today, raw, forecast, overlapped, raced, snap, rerun, ing,
                   events>>

\* _upsert_summaries: executemany INSERT, commit, finally close
SumInsert(r) ==
    /\ pc[r] = "sum_ins"
    /\ UNCHANGED <<apiVars, calc>>
    /\ \E db \in {"ok", "failed"} :
          IF db = "ok"
          THEN /\ summaries' = SummaryInsert(summaries, today, pairs[r])
               /\ sess' = [sess EXCEPT ![r] = 0]
               /\ pc' = [pc EXCEPT ![r] = "fc_conn"]
               /\ idx' = [idx EXCEPT ![r] = 0]
               /\ pairs' = [pairs EXCEPT ![r] = <<>>]
               /\ data' = [data EXCEPT ![r] = <<>>]
               /\ narr' = [narr EXCEPT ![r] = <<>>]
               /\ UNCHANGED failedAt
          ELSE SumFail(r) /\ UNCHANGED summaries
    /\ UNCHANGED <<today, raw, forecast, overlapped, raced, snap, rerun, ing,
                   events>>

\* generate_insights reaches line 291 with its summaries written: the call
\* of upsert_forecast_7d taken on its own
InsightsWritten(r) ==
    /\ ~Active(r)
    /\ UNCHANGED <<apiVars, calc>>
    /\ events < MaxEvents
    /\ events' = events + 1
    /\ pc' = [pc EXCEPT ![r] = "fc_conn"]
    /\ failedAt' = [failedAt EXCEPT ![r] = "none"]
    /\ overlapped' = [overlapped EXCEPT ![r] = FALSE]
    /\ UNCHANGED <<today, raw, summaries, forecast, pairs, idx, sess, data,
                   narr, raced, snap, rerun, ing>>

\* generate_insights, line 291: conn2 = _snowflake_conn("MART"), outside try
FcConnect(r) ==
    /\ pc[r] = "fc_conn"
    /\ UNCHANGED <<apiVars, calc>>
    /\ \E db \in {"ok", "connect_failed"} :
          IF db = "ok"
          THEN /\ sess' = [sess EXCEPT ![r] = 1]
               /\ pc' = [pc EXCEPT ![r] = "fc_del"]
               /\ UNCHANGED failedAt
          ELSE /\ pc' = [pc EXCEPT ![r] = "failed"]
               /\ failedAt' = [failedAt EXCEPT ![r] = "fc_connect"]
               /\ UNCHANGED sess
    /\ UNCHANGED <<today, raw, summaries, forecast, pairs, idx, data, narr,
                   overlapped, raced, snap, rerun, ing, events>>

\* another run stands between its DELETE and its INSERT
MidRefresh(r) == \E o \in Runs \ {r} : pc[o] = "fc_ins"

MarkOverlap(r) ==
    /\ overlapped' = [o \in Runs |->
                        IF MidRefresh(r) /\ (o = r \/ pc[o] = "fc_ins")
                        THEN TRUE ELSE overlapped[o]]
    /\ raced' = (raced \/ MidRefresh(r))

\* except Exception: logged; finally conn2.close(); the run ends normally
FcFail(r) ==
    /\ sess' = [sess EXCEPT ![r] = 0]
    /\ pc' = [pc EXCEPT ![r] = "fc_failed"]
    /\ UNCHANGED <<forecast, overlapped, raced, snap, rerun>>

\* upsert_forecast_7d: the DELETE of the future rows
FcDelete(r) ==
    /\ pc[r] = "fc_del"
    /\ UNCHANGED <<apiVars, calc>>
    /\ \E db \in {"ok", "failed"} :
          IF db = "ok"
          THEN /\ forecast' = ForecastDelete(forecast, today)
               /\ pc' = [pc EXCEPT ![r] = "fc_ins"]
               /\ MarkOverlap(r)
               /\ UNCHANGED <<sess, snap, rerun>>
          ELSE FcFail(r)
    /\ UNCHANGED <<today, raw, summaries, pairs, idx, failedAt, data, narr,
                   ing, events>>

FutureRows(fc, d) == Where(fc, LAMBDA x : x.FCST_DATE >= d + 1)

\* upsert_forecast_7d: the INSERT of the new block; conn2.close()
FcInsert(r) ==
    /\ pc[r] = "fc_ins"
    /\ UNCHANGED <<apiVars, calc>>
    /\ \E db \in {"ok", "failed"} :
          IF db = "ok"
          THEN /\ forecast' = ForecastInsert(forecast, raw, today)
               /\ sess' = [sess EXCEPT ![r] = 0]
               /\ pc' = [pc EXCEPT ![r] = "done"]
               /\ MarkOverlap(r)
               /\ IF overlapped'[r]
                  THEN UNCHANGED <<snap, rerun>>
                  ELSE /\ snap' = [valid |-> TRUE,
                                   rows |-> FutureRows(forecast', today)]
                       /\ rerun' = snap.valid
          ELSE FcFail(r)
    /\ UNCHANGED <<today, raw, summaries, pairs, idx, failedAt, data, narr,
                   ing, events>>

---------------------------------------------------------------------------
(* HTTP requests *)

RECURSIVE NumText(_)
NumText(n) ==
    IF n < 0 THEN <<"-">> \o NumText(-n)
    ELSE IF n < 10 THEN <<Digits[n + 1]>>
    ELSE NumText(n \div 10) \o <<Digits[(n % 10) + 1]>>

\* values of the zip parameter: absent, empty, blank, allowed (bare and
\* padded), unknown, and two ZIPs in one value
ZipParams ==
    {Absent, <<>>, <<" ">>, <<"93727">>, <<" ", "93637", " ">>, <<"00000">>,
     <<"93727", " ", "93637">>}

\* values of the days parameter: integers around both clamps, signed and
\* padded integers, and texts int() rejects
IntDaysParams ==
    {NumText(n) : n \in (-1..5) \cup {10} \cup (28..32) \cup (58..62)
                       \cup {1000}}

OtherDaysParams ==
    {Absent, <<>>, <<" ">>, <<"a", "b", "c">>, <<"3", ".", "5">>, <<"-">>,
     <<"+", "8">>, <<" ", "4", "0", " ">>, <<"7", "d">>}

DaysParams == IntDaysParams \cup OtherDaysParams

\* calendar dates as YYYY-MM-DD: spans of 7, 59, 60, 61 and 90 days
GoodDates ==
    {IsoFormat(dt) : dt \in {<<2023, 12, 31>>, <<2024, 1, 1>>, <<2024, 1, 8>>,
                             <<2024, 2, 29>>, <<2024, 3, 1>>, <<2024, 3, 2>>,
                             <<2024, 3, 31>>}}

\* texts of the shape YYYY-MM-DD that name no calendar date
NoDates ==
    {IsoFormat(dt) : dt \in {<<2024, 2, 30>>, <<2023, 2, 29>>, <<2024, 13, 1>>,
                             <<2024, 0, 10>>, <<2024, 1, 0>>, <<2024, 1, 32>>,
                             <<0, 1, 1>>}}

\* texts of another shape
BadShapes ==
    {<<"2", "0", "2", "4", "-", "1", "-", "1">>,
     <<"2", "0", "2", "4", "/", "0", "1", "/", "0", "1">>,
     <<"2", "0", "2", "4", "0", "1", "0", "1">>,
     <<"J", "a", "n">>,
     IsoFormat(<<2024, 1, 1>>) \o <<"T">>,
     <<"2", "0", "2", "4", "-", "0", "1", "-", " ", "1">>}

\* a date with blanks around it, a blank, empty, absent
PaddedDates == {<<" ">> \o IsoFormat(<<2024, 1, 8>>) \o <<" ">>}

NoDateParams == {Absent, <<>>, <<" ">>}

DateParams ==
    GoodDates \cup NoDates \cup BadShapes \cup PaddedDates \cup NoDateParams

\* requests for /ghitrend: every pair of calendar dates, every other date
\* text against a calendar date, and every days value
TrendRequests ==
    {Request(<<"93727">>, Absent, a, b) : a \in GoodDates, b \in GoodDates}
    \cup {Request(<<"93637">>, <<"5">>, a, b) :
            a \in DateParams, b \in {IsoFormat(<<2024, 1, 8>>)}}
    \cup {Request(Absent, Absent, a, b) :
            a \in {IsoFormat(<<2024, 1, 1>>)}, b \in DateParams}
    \cup {Request(<<"93727">>, dp, Absent, Absent) : dp \in DaysParams}

\* requests for /ghitrend with every zip value, met with every way the
\* warehouse calls end
TrendZipRequests ==
    {Request(z, dp, a, a) :
       z \in ZipParams, dp \in {<<"1">>},
       a \in {Absent, IsoFormat(<<2024, 1, 8>>), IsoFormat(<<2024, 2, 30>>),
              <<"J", "a", "n">>}}

\* requests for /forecast: every days value
ForecastRequests ==
    {Request(<<"93727">>, dp, Absent, Absent) : dp \in DaysParams}

\* requests for /forecast with every zip value, met with every way the
\* warehouse calls end
ForecastZipRequests ==
    {Request(z, dp, Absent, Absent) :
       z \in ZipParams, dp \in {Absent, <<"1", "0">>}}

\* the handler is called with req and returns: its response, the query it
\* issued, and the sessions it opened and did not close
Handle(req, o) ==
    /\ leaked + (o.opened - o.closed) <= MaxLeaks
    /\ request' = req
    /\ resp' = o.resp
    /\ sql' = o.sql
    /\ leaked' = leaked + (o.opened - o.closed)
    /\ UNCHANGED <<pipeVars, calc>>

GetSummaries ==
    \E db \in ReadOutcomes :
        Handle(NoRequest, SummariesApi(db, summaries, today))

GetGhiToday ==
    \E db \in ReadOutcomes : Handle(NoRequest, GhiToday(db, raw, today))

GetGhiTrend ==
    \/ \E req \in TrendRequests :
          Handle(req, GhiTrend(req, "ok", raw, today))
    \/ \E req \in TrendZipRequests, db \in ReadOutcomes :
          Handle(req, GhiTrend(req, db, raw, today))

GetForecast ==
    \/ \E req \in ForecastRequests :
          Handle(req, ForecastApi(req, "ok", raw, forecast, today))
    \/ \E req \in ForecastZipRequests, db \in ReadOutcomes :
          Handle(req, ForecastApi(req, db, raw, forecast, today))

\* requests for /forecast of an allowed ZIP with days 7, given or by default
SevenDayRequests ==
    {Request(<<ZIP_LIST[i]>>, dp, Absent, Absent) :
       i \in 1..Len(ZIP_LIST), dp \in {Absent, <<"7">>}}

\* /forecast for the stored 7-day block, the warehouse answering
GetForecast7 ==
    \E req \in SevenDayRequests :
        Handle(req, ForecastApi(req, "ok", raw, forecast, today))

GetStatus ==
    \E db \in StatusOutcomes :
        Handle(NoRequest, StatusApi(db, raw, summaries, forecast, today))

---------------------------------------------------------------------------
(* Summary computation: the calls of generate_insights, lines 283-284, and *)
(* heuristic_summary on its own                                            *)

\* pct = _pct_change(ghi_t, ghi_b)
CallPctChange ==
    /\ calc.stage = "args"
    /\ LET r == PctChangeCall(calc.today_val, calc.base_val)
       IN  calc' = [calc EXCEPT !.stage = "pct", !.via = "pct_change",
                                !.pct = r.val, !.raised = r.raised]
    /\ UNCHANGED <<pipeVars, apiVars>>

\* heuristic_summary(zip_code, ghi_t, dni_t, cloud_t, pct)
CallHeuristicSummary ==
    /\ calc.stage = "pct"
    /\ ~calc.raised
    /\ calc' = [calc EXCEPT !.stage = "text",
                            !.kind = HeuristicSummary(ZIP_LIST[1],
                                calc.today_val, NULL, NULL, calc.pct)]
    /\ UNCHANGED <<pipeVars, apiVars>>

\* heuristic_summary on a percent change that is given
CallHeuristicSummaryOn ==
    /\ calc.stage = "args"
    /\ calc' = [calc EXCEPT !.stage = "text", !.via = "direct",
                            !.pct = calc.pct_arg,
                            !.kind = HeuristicSummary(ZIP_LIST[1],
                                calc.today_val, NULL, NULL, calc.pct_arg)]
    /\ UNCHANGED <<pipeVars, apiVars>>

---------------------------------------------------------------------------
(* Specifications *)

\* the triggers of the insight timer that do not overlap
SeqRuns == {1}

\* the pipeline with insight runs one after the other
Next ==
    \/ Tick
    \/ FetchSolarDataCoarse
    \/ \E r \in SeqRuns : ReadBaseline(r)
    \/ \E r \in SeqRuns : SumConnect(r)
    \/ \E r \in SeqRuns : SumDelete(r)
    \/ \E r \in SeqRuns : SumInsert(r)
    \/ \E r \in SeqRuns : FcConnect(r)
    \/ \E r \in SeqRuns : FcDelete(r)
    \/ \E r \in SeqRuns : FcInsert(r)

Spec == Init /\ [][Next]_vars

\* upsert_forecast_7d called by insight runs that may overlap
NextRefresh ==
    \/ Tick
    \/ FetchSolarDataCoarse
    \/ \E r \in Runs : InsightsWritten(r)
    \/ \E r \in Runs : FcConnect(r)
    \/ \E r \in Runs : FcDelete(r)
    \/ \E r \in Runs : FcInsert(r)

SpecRefresh == Init /\ [][NextRefresh]_vars

\* the ingestion run with every way its HTTP calls can end
NextIngest == Tick \/ FetchSolarData

SpecIngest == Init /\ [][NextIngest]_vars

\* the HTTP read handlers over a warehouse at rest
NextApi ==
    \/ GetSummaries
    \/ GetGhiToday
    \/ GetGhiTrend
    \/ GetForecast
    \/ GetStatus

SpecApi == InitApi /\ [][NextApi]_vars

\* forecast refreshes one after the other over several days, and /forecast
\* requests for the stored block between their steps
NextServe ==
    \/ Tick
    \/ FetchSolarDataCoarse
    \/ \E r \in SeqRuns : InsightsWritten(r)
    \/ \E r \in SeqRuns : FcConnect(r)
    \/ \E r \in SeqRuns : FcDelete(r)
    \/ \E r \in SeqRuns : FcInsert(r)
    \/ GetForecast7

SpecServe == Init /\ [][NextServe]_vars

\* one summary computation
NextSummary ==
    \/ CallPctChange
    \/ CallHeuristicSummary
    \/ CallHeuristicSummaryOn

SpecSummary == InitSummary /\ [][NextSummary]_vars

---------------------------------------------------------------------------
(* Properties of the forecast refresh (SpecRefresh) *)

\* run r's refresh ends in this step with both statements applied and no
\* statement of another refresh between them
CleanCompletion(r) ==
    pc[r] = "fc_ins" /\ pc'[r] = "done" /\ ~overlapped'[r]

\* C1: a refresh that completes, not overlapped, after an earlier clean
\* refresh of the same day with RAW unchanged since, leaves the same bag of
\* forecast rows dated tomorrow or later as that earlier refresh left
C1_RefreshIdempotent ==
    [][\A r \in Runs :
          (CleanCompletion(r) /\ snap.valid) =>
              FutureRows(forecast', today') = snap.rows]_vars

\* a second clean refresh of the day has completed and left a block
C1_Witness == rerun /\ BagCardinality(snap.rows) >= 7

\* the forecast rows of ZIP z dated after day d
FutureOf(fc, z, d) == Where(fc, LAMBDA x : x.ZIP = z /\ x.FCST_DATE > d)

\* the observations of ZIP z dated d-6 .. d
TrailingObs(tbl, z, d) ==
    Where(tbl, LAMBDA x : x.ZIP = z /\ x.OBS_DATE >= d - 6 /\ x.OBS_DATE <= d)

WindowExact(fc, tbl, d) ==
    \A z \in ZipsOf(tbl) \cup ZipsOf(fc) :
        LET obs == TrailingObs(tbl, z, d)
            fut == FutureOf(fc, z, d)
        IN  IF DOMAIN obs # {}
            THEN /\ BagCardinality(fut) = 7
                 /\ \A k \in 1..7 :
                       CopiesIn([ZIP |-> z, FCST_DATE |-> d + k,
                                 GHI_PREDICTED |-> Avg(obs, "GHI"),
                                 METHOD |-> "7d_ma"], fut) = 1
            ELSE DOMAIN fut = {}

\* C2: when a refresh completes without another refresh's statement between
\* its DELETE and INSERT, every ZIP with an observation dated today-6..today
\* has exactly the 7 rows today+1..today+7, each with that ZIP's trailing
\* 7-day GHI mean and the tag '7d_ma', and every other ZIP has no row dated
\* after today
C2_SevenDayWindow ==
    [][\A r \in Runs :
          CleanCompletion(r) => WindowExact(forecast', raw', today')]_vars

\* a clean refresh has left blocks whose mean averages a fallback zero and
\* a reading, over a RAW table that also holds a week-old observation
C2_Witness ==
    /\ snap.valid
    /\ \E x \in DOMAIN snap.rows : x.GHI_PREDICTED = <<3, 1>>
    /\ \E x \in DOMAIN raw : x.OBS_DATE < today - 6

\* some ZIP has more than 7 forecast rows dated tomorrow or later
WindowCorrupt ==
    \E z \in ZipsOf(forecast) :
        BagCardinality(FutureOf(forecast, z, today)) > 7

\* C4: more than 7 future rows for a ZIP arise only when two refreshes have
\* interleaved their DELETE and INSERT statements, and such a state is
\* reachable (C4_Witness)
C4_CorruptOnlyByOverlap == WindowCorrupt => raced

\* two overlapped refreshes have left a ZIP with duplicated rows
C4_Witness ==
    /\ raced
    /\ \E x \in DOMAIN forecast : x.FCST_DATE > today /\ forecast[x] > 1
    /\ WindowCorrupt

---------------------------------------------------------------------------
(* Properties of the summaries and of the insight run (Spec) *)

RowsOf(tbl, d, z) == Where(tbl, LAMBDA x : x.SUMMARY_DATE = d /\ x.ZIP = z)

OtherDays(tbl, d) == Where(tbl, LAMBDA x : x.SUMMARY_DATE # d)

\* run r's _upsert_summaries commits in this step
SummariesCommitted(r) == pc[r] = "sum_ins" /\ pc'[r] = "fc_conn"

\* C3: with insight runs one after the other, on one day or across days,
\* SUMMARIES never holds two rows for one (date, ZIP); a run that commits
\* leaves exactly one row for (today, ZIP) for each ZIP it wrote; and no
\* step changes the rows of a date other than today
C3_OneSummaryPerDayZip ==
    /\ [](\A x \in DOMAIN summaries :
            /\ summaries[x] = 1
            /\ \A y \in DOMAIN summaries :
                  (x.SUMMARY_DATE = y.SUMMARY_DATE /\ x.ZIP = y.ZIP) => x = y)
    /\ [][/\ OtherDays(summaries', today) = OtherDays(summaries, today)
          /\ \A r \in Runs :
                SummariesCommitted(r) =>
                    \A i \in 1..Len(pairs[r]) :
                        BagCardinality(RowsOf(summaries', today,
                                              pairs[r][i].zip)) = 1]_vars

\* the second run of a day has committed over the first run's rows, next to
\* rows of an earlier day
C3_Witness ==
    /\ pc[1] = "fc_conn"
    /\ today = Day0 + 1
    /\ \E x \in DOMAIN forecast : x.FCST_DATE = today + 7
    /\ \E x \in DOMAIN summaries : x.SUMMARY_DATE = today
    /\ \E x \in DOMAIN summaries : x.SUMMARY_DATE = Day0

Failed(o) == o.geo # "ok" \/ o.wx # "ok"

\* C5: fetch_daily_record never raises, so an ingestion run builds one
\* record per configured ZIP in allow-list order, dated today: the fallback
\* record (zeros, temperature 20, FALLBACK) where a call failed, a record
\* tagged OPEN_METEO with the fetched means where none did
C5_OneRecordPerZip ==
    /\ ~ing.raised
    /\ ing.outs # <<>> =>
          /\ Len(ing.rows) = Len(ZIP_LIST)
          /\ \A i \in 1..Len(ZIP_LIST) :
                /\ ing.rows[i].ZIP = ZIP_LIST[i]
                /\ ing.rows[i].OBS_DATE = ing.day
                /\ IF Failed(ing.outs[i])
                   THEN ing.rows[i] =
                          [OBS_DATE |-> ing.day, ZIP |-> ZIP_LIST[i],
                           GHI |-> 0, DNI |-> 0, DHI |-> 0, CLOUD_COVER |-> 0,
                           TEMP_C |-> 20, SOURCE |-> "FALLBACK"]
                   ELSE /\ ing.rows[i].SOURCE = "OPEN_METEO"
                        /\ ing.rows[i].GHI = ing.outs[i].m.GHI
                        /\ ing.rows[i].TEMP_C = ing.outs[i].m.TEMP_C

\* a run in which one ZIP's geocoding failed and another ZIP's fetch worked
C5_Witness ==
    /\ ing.outs # <<>>
    /\ \E i, j \in 1..Len(ZIP_LIST) :
          /\ ing.outs[i].geo = "http_error"
          /\ ing.rows[i].SOURCE = "FALLBACK"
          /\ ing.rows[j].SOURCE = "OPEN_METEO"
          /\ ing.rows[j] \in DOMAIN raw

InWrite(r) == pc[r] \in {"upsert", "sum_del", "sum_ins"}

InRefresh(r) == pc[r] \in {"fc_conn", "fc_del", "fc_ins"}

---------------------------------------------------------------------------
(* Properties of the HTTP handlers (SpecApi) *)

\* C7: every warehouse session a read handler or a scheduled run opened is
\* closed when that handler or run exits, on success and on every failure:
\* no handler has left a session open, and a run that is over holds none
C7_SessionsClosedOnExit ==
    /\ leaked = 0
    /\ \A r \in Runs : ~Active(r) => sess[r] = 0

\* status_api has answered 500 and left a session open
C7_Witness ==
    resp.handler = "status" /\ resp.status = 500 /\ leaked > 0

\* a zip parameter that, trimmed, is non-empty and not in the allow-list
BadZip(p) == Strip(OrEmpty(p)) # <<>> /\ ~ZipAllowed(Strip(OrEmpty(p)), ZIP_LIST)

\* the parameter is supplied: non-empty once trimmed
Supplied(p) == Strip(OrEmpty(p)) # <<>>

\* the text is a calendar date written YYYY-MM-DD
IsIsoDate(t) ==
    /\ Len(t) = 10
    /\ \A i \in 1..10 : IF i \in {5, 8} THEN t[i] = "-" ELSE IsDigit(t[i])
    /\ LET y == DigitsValue(SubSeq(t, 1, 4))
           m == DigitsValue(SubSeq(t, 6, 7))
           d == DigitsValue(SubSeq(t, 9, 10))
       IN  /\ m \in 1..12
           /\ d >= 1
           /\ d <= (IF m = 2 THEN (IF IsLeap(y) THEN 29 ELSE 28)
                    ELSE IF m \in {4, 6, 9, 11} THEN 30 ELSE 31)

BadRange(req) ==
    /\ Supplied(req.start) /\ Supplied(req.end)
    /\ ~IsIsoDate(Strip(req.start)) \/ ~IsIsoDate(Strip(req.end))

\* C8: on the trend and forecast endpoints a request whose zip is non-empty
\* and not in the allow-list, and a trend request whose start and end are
\* both given with one of them not a valid YYYY-MM-DD date, is answered 400
\* and no warehouse query is run
C8_InvalidInputIs400 ==
    (\/ resp.handler \in {"ghitrend", "forecast"} /\ BadZip(request.zip)
     \/ resp.handler = "ghitrend" /\ BadRange(request))
    => resp.status = 400 /\ ~sql.issued

\* a trend request for an allowed ZIP whose start has the shape of a date
\* but names none (30 February) has been answered 500
C8_Witness ==
    /\ resp.handler = "ghitrend"
    /\ ~BadZip(request.zip)
    /\ request.start = IsoFormat(<<2024, 2, 30>>)
    /\ resp.status = 500

\* the two dates of a request as day ordinals
GivenDates(req) ==
    {ToOrdinal(Strptime(Strip(req.start)).date),
     ToOrdinal(Strptime(Strip(req.end)).date)}

GoodRange(req) ==
    /\ Supplied(req.start) /\ Supplied(req.end)
    /\ IsIsoDate(Strip(req.start)) /\ IsIsoDate(Strip(req.end))

\* the window start..end (two YYYY-MM-DD texts) is the one the claim gives
\* for the dates of req: it ends on the later date and starts on the
\* earlier one, or 60 days before the end if that is later
WindowOf(req, start, end) ==
    LET lo == CHOOSE a \in GivenDates(req) : \A b \in GivenDates(req) : a <= b
        hi == CHOOSE a \in GivenDates(req) : \A b \in GivenDates(req) : a >= b
        s == ToOrdinal(Strptime(start).date)
        e == ToOrdinal(Strptime(end).date)
    IN  /\ IsIsoDate(start) /\ IsIsoDate(end)
        /\ s <= e
        /\ e - s <= 60
        /\ e = hi
        /\ s = (IF hi - lo > 60 THEN hi - 60 ELSE lo)

\* C9: a trend request with two valid dates and an allowed ZIP queries, and
\* on a 200 echoes, a window with start <= end that ends on the later of
\* the two dates and starts on the earlier one, moved forward to 60 days
\* before the end when the span exceeds 60 days
C9_RangeClamped ==
    (resp.handler = "ghitrend" /\ GoodRange(request) /\ ~BadZip(request.zip))
    => /\ sql.issued => WindowOf(request, sql.start, sql.end)
       /\ resp.status = 200 =>
             /\ WindowOf(request, resp.start, resp.end)
             /\ resp.start = sql.start /\ resp.end = sql.end

\* a 90-day span, given in reverse, has been answered with the 60 days that
\* end on the later date
C9_Witness ==
    /\ resp.handler = "ghitrend" /\ resp.status = 200
    /\ request.start = IsoFormat(<<2024, 3, 31>>)
    /\ request.end = IsoFormat(<<2024, 1, 1>>)
    /\ resp.start = IsoFormat(<<2024, 1, 31>>)
    /\ resp.end = IsoFormat(<<2024, 3, 31>>)

\* the integers whose texts are requested as days
DaysTried == (-1..62) \cup {1000}

\* the integer a days parameter writes (blanks around it and a plus sign
\* allowed), or 7 if it is absent or writes none
DaysMeant(p) ==
    LET t == Strip(OrEmpty(p))
        u == IF t # <<>> /\ Head(t) = "+" THEN Tail(t) ELSE t
    IN  IF \E n \in DaysTried : u = NumText(n)
        THEN CHOOSE n \in DaysTried : u = NumText(n)
        ELSE 7

Clamp(lo, n, hi) == IF n < lo THEN lo ELSE IF n > hi THEN hi ELSE n

\* C10: the days of a 200 response of the trend-by-days handler is the
\* requested integer clamped to 3..60, that of the forecast handler the
\* requested integer clamped to 1..30, an absent or non-integer parameter
\* counting as 7; the query uses the same value
C10_DaysClamped ==
    /\ (resp.handler = "ghitrend" /\ resp.status = 200
        /\ ~(Supplied(request.start) /\ Supplied(request.end)))
       => /\ resp.days = Clamp(3, DaysMeant(request.days), 60)
          /\ resp.days \in 3..60
          /\ sql.since = today - (resp.days - 1)
    /\ (resp.handler = "forecast" /\ resp.status = 200)
       => /\ resp.days = Clamp(1, DaysMeant(request.days), 30)
          /\ resp.days \in 1..30
          /\ sql.rows = resp.days
          /\ sql.table = "SOLAR_OBS" => BagCardinality(resp.data) = resp.days

\* a trend request for days=1 has been answered with days 3
C10_Witness ==
    /\ resp.handler = "ghitrend" /\ resp.status = 200
    /\ request.days = <<"1">>
    /\ resp.days = 3

---------------------------------------------------------------------------
(* Properties of the summary computation (SpecSummary) *)

\* the value is a number equal to zero
IsZero(v) == v # NULL /\ v[1] = 0

\* C11: _pct_change never raises; it returns null exactly when today's
\* value is null or the baseline is null or zero, and otherwise the number
\* p with p * baseline = (today - baseline) * 100
C11_PctChangeDefined ==
    (calc.via = "pct_change") =>
        /\ ~calc.raised
        /\ (calc.pct = NULL) <=>
              (calc.today_val = NULL \/ calc.base_val = NULL
               \/ IsZero(calc.base_val))
        /\ (calc.pct # NULL) =>
              LET t == calc.today_val
                  b == calc.base_val
                  p == calc.pct
              IN  /\ p[2] > 0
                  /\ p[1] * (b[1] * t[2])
                        = p[2] * 100 * (t[1] * b[2] - b[1] * t[2])

\* the change from a baseline of 100 to 110.01 has been computed as 10.01
\* percent
C11_Witness ==
    /\ calc.stage = "pct"
    /\ calc.today_val # NULL /\ calc.today_val = <<11001, 100>>
    /\ calc.base_val # NULL /\ calc.base_val = <<100, 1>>
    /\ calc.pct # NULL /\ calc.pct = <<1001, 100>>

\* the percent change p (a fraction with a positive denominator) is greater
\* than the whole number n
Above(p, n) == p[1] > n * p[2]

\* p is less than n
Below(p, n) == p[1] < n * p[2]

\* C12: the kind of the heuristic summary is fixed by today's GHI mean and
\* the percent change: no_data without a today's mean, else first_day
\* without a percent change, else above iff pct > 10, below iff pct < -10,
\* and near for every pct from -10 to 10, both included
C12_SummaryKind ==
    (calc.stage = "text") =>
        /\ calc.kind \in {"no_data", "first_day", "above", "below", "near"}
        /\ calc.kind = "no_data" <=> calc.today_val = NULL
        /\ calc.kind = "first_day" <=>
              (calc.today_val # NULL /\ calc.pct = NULL)
        /\ (calc.today_val # NULL /\ calc.pct # NULL) =>
              /\ calc.kind = "above" <=> Above(calc.pct, 10)
              /\ calc.kind = "below" <=> Below(calc.pct, -10)
              /\ calc.kind = "near" <=>
                    (~Above(calc.pct, 10) /\ ~Below(calc.pct, -10))
              /\ calc.pct \in {<<10, 1>>, <<-10, 1>>} => calc.kind = "near"
              /\ calc.pct = <<1001, 100>> => calc.kind = "above"
              /\ calc.pct = <<-1001, 100>> => calc.kind = "below"

\* a mean 10 percent above its baseline, the percent change computed by
\* _pct_change, has been called near the baseline
C12_Witness ==
    /\ calc.stage = "text" /\ calc.via = "pct_change"
    /\ calc.today_val # NULL /\ calc.today_val = <<110, 1>>
    /\ calc.pct # NULL /\ calc.pct = <<10, 1>>
    /\ calc.kind = "near"

---------------------------------------------------------------------------
(* The stored forecast block as /forecast serves it *)

\* the last refresh of today has completed, no refresh overlapped another or
\* is under way, RAW is as that refresh read it, and it wrote rows for ZIP z
RefreshedToday(z) ==
    /\ snap.valid
    /\ ~raced
    /\ \E r \in Runs : pc[r] = "done"
    /\ \A r \in Runs : pc[r] \in {"idle", "done"}
    /\ z \in ZipsOf(snap.rows)

\* the dates today+1 .. today+7 as the series shows them
NextSevenDates(d) == {DateText(d + k) : k \in 1..FcstRows}

\* a step of the /forecast handler: a request is answered and the pipeline
\* stands still
ForecastAnswered ==
    /\ UNCHANGED pipeVars
    /\ resp'.handler = "forecast"
    /\ resp'.status = 200

\* C13: for an allowed ZIP whose forecast was refreshed today, after any
\* sequence of non-overlapping refresh runs over several days, the answer
\* to a /forecast request with days 7 echoes 7 and carries exactly 7
\* entries, one for each of the dates today+1 .. today+7
C13_SevenEntries ==
    [][(ForecastAnswered /\ RefreshedToday(resp'.zip)) =>
          /\ resp'.days = FcstRows
          /\ BagCardinality(resp'.data) = FcstRows
          /\ {x.FCST_DATE : x \in DOMAIN resp'.data} = NextSevenDates(today)]_vars

\* what the code does keep: the entries dated after today are exactly one
\* for each of the dates today+1 .. today+7
C13_SevenFutureEntries ==
    [][(ForecastAnswered /\ RefreshedToday(resp'.zip)) =>
          /\ resp'.days = FcstRows
          /\ \A t \in NextSevenDates(today) :
                 BagCardinality(Where(resp'.data,
                                      LAMBDA x : x.FCST_DATE = t)) = 1]_vars

\* a refresh of yesterday and a refresh of today have both completed, and
\* the answer for a ZIP refreshed today carries 8 entries, the first of
\* them dated today
C13_Witness ==
    /\ today > Day0
    /\ resp.handler = "forecast"
    /\ resp.status = 200
    /\ resp.days = FcstRows
    /\ RefreshedToday(resp.zip)
    /\ resp.data = StoredForecast(forecast, resp.zip)
    /\ BagCardinality(resp.data) = FcstRows + 1
    /\ \E x \in DOMAIN resp.data : x.FCST_DATE = DateText(today)

============================================================================
